---- MODULE Spec2Model ----
(***************************************************************************)
(* The query-to-answer pipeline of the RAG chatbot: the startup of         *)
(* ChatbotService (app/chatbot_service.py), the POST /chat/ handler        *)
(* (app/main.py) and the four stages of get_rag_response.                  *)
(*                                                                         *)
(* Text is a sequence of symbols.  A symbol is a character (" ", "\n",     *)
(* "q", "x") or a fixed phrase of the source kept whole (the instruction   *)
(* block of the prompt, the no-information sentence, the apology).         *)
(***************************************************************************)
EXTENDS Integers, Sequences, FiniteSets, TLC

(* ------------------------------ bounds --------------------------------- *)
\* longest query text a caller sends
MaxQueryLen == 2
\* longest message content the LLM endpoint answers with
MaxContentLen == 2
\* largest distance the index reports (distances are 0..MaxDistance)
MaxDistance == 1

(* ------------------------- program constants --------------------------- *)
\* get_rag_response asks for the top 3 results
N_RESULTS == 3

NO_CONTEXT ==
    <<"No specific information found in the knowledge base for this query.">>

APOLOGY ==
    <<"I'm sorry, but I encountered an issue while trying to generate a response. Please try again later.">>

DETAIL_503 == "Chatbot service is currently unavailable. Please check server logs."
DETAIL_400 == "Query cannot be empty."
DETAIL_500 == "An internal server error occurred."

\* the f-string of _construct_prompt, cut at {context_str} and {query}
PROMPT_HEAD ==
    <<"You are an empathetic and helpful AI assistant. [...] Be polite, understanding, and aim to provide clear and concise answers.",
      "\n", "\n", "Knowledge Base Context:", "\n", "---", "\n">>
PROMPT_MID ==
    <<"\n", "---", "\n", "\n", "User's Question: ">>
PROMPT_TAIL ==
    <<"\n", "\n",
      "Helpful and Empathetic Answer (based *only* on the Knowledge Base Context):",
      "\n">>

(* ------------------------------- text ---------------------------------- *)
SeqsUpTo(S, n) == UNION {[1..k -> S] : k \in 0..n}

\* Python's str.strip() removes leading and trailing whitespace
Whitespace == {" ", "\n"}

RECURSIVE LStrip(_)
LStrip(s) ==
    IF s # <<>> /\ Head(s) \in Whitespace THEN LStrip(Tail(s)) ELSE s

RECURSIVE RStrip(_)
RStrip(s) ==
    IF s # <<>> /\ s[Len(s)] \in Whitespace
    THEN RStrip(SubSeq(s, 1, Len(s) - 1))
    ELSE s

Strip(s) == RStrip(LStrip(s))

\* sep.join(parts)
RECURSIVE Join(_, _)
Join(sep, parts) ==
    IF parts = <<>> THEN <<>>
    ELSE IF Len(parts) = 1 THEN parts[1]
    ELSE parts[1] \o sep \o Join(sep, Tail(parts))

\* t occurs in s starting at position i (1-based)
OccursAt(s, t, i) ==
    /\ i >= 1
    /\ i + Len(t) - 1 <= Len(s)
    /\ SubSeq(s, i, i + Len(t) - 1) = t

\* Python's  t in s
Contains(s, t) == \E i \in 1..(Len(s) + 1) : OccursAt(s, t, i)

(* ------------------------------ inputs --------------------------------- *)
Queries == SeqsUpTo({" ", "q"}, MaxQueryLen)

\* the value of a Python None where a str is expected
NoneDoc == <<"<None>">>

\* the text the builder stores for an FAQ whose answer is, word for word,
\* the no-information sentence
DocNoInfo == <<"Question: ", "a", " Answer: ">> \o NO_CONTEXT

Rec(i, d) == [id |-> i, document |-> d, metadata |-> [faq_id |-> i]]

\* contents the persisted collection "faq_collection" may have when the
\* service opens it: empty, fewer than N_RESULTS records, more than
\* N_RESULTS records, a record whose text holds the no-information sentence,
\* a record stored without a text (the index answers None for its document;
\* build_knowledge_base.py stores a text with every record, other writers
\* of the store need not)
StoredCollections ==
    { <<>>,
      <<Rec(0, <<"Question: ", "a", " Answer: ", "b">>)>>,
      <<Rec(0, <<"d0">>), Rec(1, DocNoInfo)>>,
      <<Rec(0, <<"d0">>), Rec(1, NoneDoc)>>,
      <<Rec(0, <<"d0">>), Rec(1, <<"d1">>), Rec(2, <<"d2">>), Rec(3, <<"d3">>)>> }

(* ----------------------- external collaborators ------------------------ *)
Min(a, b) == IF a <= b THEN a ELSE b

\* the ways to pick k distinct records out of n, nearest first
InjSeqs(n, k) ==
    {s \in [1..k -> 1..n] : \A i, j \in 1..k : i # j => s[i] # s[j]}

\* distances of a result list: ascending
AscSeqs(k) ==
    {d \in [1..k -> 0..MaxDistance] : \A i \in 1..k : i < k => d[i] <= d[i + 1]}

\* collection.query(query_embeddings=[v], n_results=n, include=[...]):
\* what the index answers when it answers.  The first (only) inner list of
\* each key is kept; which records are nearest depends on the embedding,
\* which the model leaves open.
QueryResults(coll, n) ==
    LET k == Min(n, Len(coll))
    IN  { [documents |-> [i \in 1..k |-> coll[s[i]].document],
           metadatas |-> [i \in 1..k |-> coll[s[i]].metadata],
           distances |-> d] : s \in InjSeqs(Len(coll), k), d \in AscSeqs(k) }

EmptyResults == [documents |-> <<>>, metadatas |-> <<>>, distances |-> <<>>]

\* an index query either raises or answers
QueryOutcomes(coll, n) ==
    {[raised |-> TRUE, results |-> EmptyResults]}
      \cup {[raised |-> FALSE, results |-> r] : r \in QueryResults(coll, n)}

\* llm_client.chat.completions.create(...) raises (timeout, refused
\* connection), answers without choices, answers a message whose content is
\* None, or answers a message with a text content
LLMContents == SeqsUpTo({" ", "x"}, MaxContentLen)

LLMOutcomes ==
    {[kind |-> k, content |-> <<>>] :
        k \in {"transport_error", "no_choices", "none_content"}}
      \cup {[kind |-> "ok", content |-> c] : c \in LLMContents}

COLLECTION_NAME == "faq_collection"

EXC_EMBED == "RuntimeError: encode failed"
EXC_JOIN == "TypeError: sequence item 1: expected str instance, NoneType found"

(* ------------------------- ChatbotService, pure ------------------------ *)
\* _embed_query: the vector of a query (deterministic in the query)
embed_query(query) == <<"embedding of">> \o query

\* _retrieve_context: the try body on an answer, the except branch on a raise
\* (variant: the except branch answers the error text as a document)
retrieve_context_error_doc(outcome) ==
    IF outcome.raised
    THEN [documents |-> <<<<"error">>>>, metadatas |-> <<>>, distances |-> <<>>]
    ELSE outcome.results
\* (variant: the distance filter of lines 153-155, which the code leaves
\* out, dropping the candidates at the largest distance)
retrieve_context_filtered(outcome) ==
    LET r == outcome.results
        n == Cardinality({i \in 1..Len(r.distances) : r.distances[i] < MaxDistance})
    IN  IF outcome.raised THEN EmptyResults
        ELSE [documents |-> SubSeq(r.documents, 1, n),
              metadatas |-> SubSeq(r.metadatas, 1, n),
              distances |-> SubSeq(r.distances, 1, n)]
retrieve_context(outcome) ==
    IF outcome.raised THEN EmptyResults ELSE outcome.results

\* "\n\n".join(context_documents) raises TypeError on a non-str item
JoinRaises(context_documents) ==
    \E i \in 1..Len(context_documents) : context_documents[i] = NoneDoc

\* _construct_prompt, for documents the join accepts
\* (variant: no branch for the empty list)
construct_prompt_no_fallback(query, context_documents) ==
    PROMPT_HEAD \o Join(<<"\n", "\n">>, context_documents)
        \o PROMPT_MID \o query \o PROMPT_TAIL
\* (variant: documents joined by one newline)
construct_prompt_single_newline(query, context_documents) ==
    LET context_str ==
            IF context_documents = <<>>
            THEN NO_CONTEXT
            ELSE Join(<<"\n">>, context_documents)
    IN  PROMPT_HEAD \o context_str \o PROMPT_MID \o query \o PROMPT_TAIL
construct_prompt(query, context_documents) ==
    LET context_str ==
            IF context_documents = <<>>
            THEN NO_CONTEXT
            ELSE Join(<<"\n", "\n">>, context_documents)
    IN  PROMPT_HEAD \o context_str \o PROMPT_MID \o query \o PROMPT_TAIL

\* _generate_llm_response: the stripped content, or the apology when the
\* call or the reading of response.choices[0].message.content raises
\* (variants: no except branch; an except branch for the call alone)
generate_llm_response_no_except(outcome) == Strip(outcome.content)
generate_llm_response_only_transport(outcome) ==
    IF outcome.kind = "transport_error" THEN APOLOGY ELSE Strip(outcome.content)
generate_llm_response(outcome) ==
    IF outcome.kind = "ok" THEN Strip(outcome.content) ELSE APOLOGY

\* main.py: not request.query or not request.query.strip()
\* (variant: the test without strip())
IsBlank_no_strip(query) == query = <<>>
IsBlank(query) == query = <<>> \/ Strip(query) = <<>>

(* ------------------------------- state --------------------------------- *)
VARIABLES
    init_pc,                    \* position in ChatbotService.__init__
    embedding_model,            \* self.embedding_model is set
    collection,                 \* self.collection: name of the opened collection
    llm_client,                 \* self.llm_client is set
    chatbot_service_instance,   \* main.py global: "unset", "service", "None"
    vector_store,               \* the persisted collection on disk
    pc,                         \* position of the request being processed
    caller,                     \* "http" (handle_chat_query) or "direct"
    query,                      \* the request's query
    query_embedding,
    context_documents, context_metadatas, context_distances,
    prompt,
    final_response,
    llm_outcome,                \* what the LLM endpoint did for this request
    query_raised,               \* the index query raised for this request
    rag_result,                 \* how get_rag_response ended for this request
    response,                   \* the HTTP response of handle_chat_query
    stages                      \* pipeline stages this request has run

\* scripts/build_knowledge_base.py, one run of store_in_chromadb at a time
VARIABLES
    kb,                         \* the persisted store: [exists, records]
    b_pc,                       \* position in store_in_chromadb
    b_documents, b_embeddings, b_metadatas,   \* its arguments
    b_delete_failed,            \* delete_collection raised on an existing collection
    b_result                    \* "none", "True", "False"

\* requests of POST /chat/ in flight at once, each at its own position
VARIABLES
    c_pc,                       \* per request: position in the handler
    c_query,                    \* per request: request.query
    c_frames,                   \* per call frame: the locals of get_rag_response
    c_seen,                     \* per request: what its own external calls did
    c_response                  \* per request: the HTTP response

\* streamlit_app.py, one browser session
VARIABLES
    ui_messages,                \* st.session_state.messages
    ui_pc,                      \* position in the script run
    ui_query,                   \* user_query of the run
    ui_submitted                \* inputs submitted so far in the session

service == <<embedding_model, collection, llm_client>>
locals == <<query_embedding, context_documents, context_metadatas,
            context_distances, prompt, final_response, llm_outcome,
            query_raised>>
serve_vars == <<init_pc, service, chatbot_service_instance, vector_store, pc,
                caller, query, locals, rag_result, response, stages>>
build_vars == <<kb, b_pc, b_documents, b_embeddings, b_metadatas,
                b_delete_failed, b_result>>
conc_vars == <<c_pc, c_query, c_frames, c_seen, c_response>>
ui_vars == <<ui_messages, ui_pc, ui_query, ui_submitted>>
vars == <<serve_vars, build_vars, conc_vars, ui_vars>>

NoOutcome == [kind |-> "none", content |-> <<>>]
NoResult == [kind |-> "none", value |-> <<>>, exc |-> ""]
NoResponse == [status |-> 0, answer |-> <<>>, detail |-> ""]

Returned(v) == [kind |-> "returned", value |-> v, exc |-> ""]
Raised(e) == [kind |-> "raised", value |-> <<>>, exc |-> e]

HTTPException(code, text) == [status |-> code, answer |-> <<>>, detail |-> text]
ChatResponse(a) == [status |-> 200, answer |-> a, detail |-> ""]

FreshLocals ==
    /\ query_embedding = <<>>
    /\ context_documents = <<>>
    /\ context_metadatas = <<>>
    /\ context_distances = <<>>
    /\ prompt = <<>>
    /\ final_response = <<>>
    /\ llm_outcome = NoOutcome
    /\ query_raised = FALSE

\* no collection on disk, no build running
NoCollection == [exists |-> FALSE, records |-> {}]

BuildIdle ==
    /\ kb = NoCollection
    /\ b_pc = "idle"
    /\ b_documents = <<>>
    /\ b_embeddings = <<>>
    /\ b_metadatas = <<>>
    /\ b_delete_failed = FALSE
    /\ b_result = "none"

\* most requests in flight at once
NumRequests == 2
Requests == 1..NumRequests

NoFrame == [query_embedding |-> <<>>, context_documents |-> <<>>,
            prompt |-> <<>>, final_response |-> <<>>]
NothingSeen == [embed_ok |-> TRUE, query_outcome |-> [raised |-> FALSE,
                results |-> EmptyResults], llm_outcome |-> NoOutcome,
                prompt |-> <<>>]

ConcIdle ==
    /\ c_pc = [r \in Requests |-> "idle"]
    /\ c_query = [r \in Requests |-> <<>>]
    /\ c_frames = [r \in Requests |-> NoFrame]
    /\ c_seen = [r \in Requests |-> NothingSeen]
    /\ c_response = [r \in Requests |-> NoResponse]

\* "messages" not in st.session_state: the session has not run the script
UIIdle ==
    /\ ui_messages = <<>>
    /\ ui_pc = "idle"
    /\ ui_query = ""
    /\ ui_submitted = 0

Init ==
    /\ BuildIdle
    /\ ConcIdle
    /\ UIIdle
    /\ init_pc = "load_embedding_model"
    /\ embedding_model = FALSE
    /\ collection = ""
    /\ llm_client = FALSE
    /\ chatbot_service_instance = "unset"
    /\ vector_store \in StoredCollections
    /\ pc = "idle"
    /\ caller = "none"
    /\ query = <<>>
    /\ FreshLocals
    /\ rag_result = NoResult
    /\ response = NoResponse
    /\ stages = <<>>

(* ------------------- startup: ChatbotService.__init__ ------------------ *)
\* main.py, except branch of the module-level try: the exception of
\* __init__ is logged and the global is None; the half-built object is gone
InitFails ==
    /\ embedding_model' = FALSE
    /\ collection' = ""
    /\ llm_client' = FALSE
    /\ chatbot_service_instance' = "None"
    /\ init_pc' = "done"

\* 1. SentenceTransformer(EMBEDDING_MODEL_NAME)
LoadEmbeddingModel ==
    /\ init_pc = "load_embedding_model"
    /\ \E ok \in BOOLEAN :
          IF ok
          THEN /\ embedding_model' = TRUE
               /\ init_pc' = "get_collection"
               /\ UNCHANGED <<collection, llm_client, chatbot_service_instance>>
          ELSE InitFails
    /\ UNCHANGED <<vector_store, pc, caller, query, locals, rag_result,
                   response, stages>>

\* 2. PersistentClient(path) and get_collection(name)
GetCollection ==
    /\ init_pc = "get_collection"
    /\ \E ok \in BOOLEAN :
          IF ok
          THEN /\ collection' = COLLECTION_NAME
               /\ init_pc' = "llm_client"
               /\ UNCHANGED <<embedding_model, llm_client,
                              chatbot_service_instance>>
          ELSE InitFails
    /\ UNCHANGED <<vector_store, pc, caller, query, locals, rag_result,
                   response, stages>>

\* 3. OpenAI(base_url, api_key); on success main.py binds the instance
ConstructLLMClient ==
    /\ init_pc = "llm_client"
    /\ \E ok \in BOOLEAN :
          IF ok
          THEN /\ llm_client' = TRUE
               /\ chatbot_service_instance' = "service"
               /\ init_pc' = "done"
               /\ UNCHANGED <<embedding_model, collection>>
          ELSE InitFails
    /\ UNCHANGED <<vector_store, pc, caller, query, locals, rag_result,
                   response, stages>>

(* --------------------------- a request begins -------------------------- *)
\* the locals of the previous request are gone when a new one begins
ResetLocals ==
    /\ query_embedding' = <<>>
    /\ context_documents' = <<>>
    /\ context_metadatas' = <<>>
    /\ context_distances' = <<>>
    /\ prompt' = <<>>
    /\ final_response' = <<>>
    /\ llm_outcome' = NoOutcome
    /\ query_raised' = FALSE
    /\ rag_result' = NoResult
    /\ stages' = <<>>

\* handle_chat_query, lines 60-66: the status it rejects the request with,
\* 0 when it goes on to call get_rag_response
\* (variants: no emptiness test; the emptiness test before the None test)
EntryCheck_no_validation(instance, q) ==
    IF instance = "None" THEN 503 ELSE 0
EntryCheck_validation_first(instance, q) ==
    IF IsBlank(q) THEN 400
    ELSE IF instance = "None" THEN 503
    ELSE 0
EntryCheck(instance, q) ==
    IF instance = "None" THEN 503
    ELSE IF IsBlank(q) THEN 400
    ELSE 0

EntryDetail(code) == IF code = 503 THEN DETAIL_503 ELSE DETAIL_400

\* POST /chat/ arrives (the application serves once module import is over)
HandleChatQuery(q) ==
    /\ init_pc = "done"
    /\ pc \in {"idle", "done"}
    /\ caller' = "http"
    /\ query' = q
    /\ ResetLocals
    /\ LET code == EntryCheck(chatbot_service_instance, q)
       IN  IF code # 0
           THEN /\ response' = HTTPException(code, EntryDetail(code))
                /\ pc' = "done"
           ELSE /\ response' = NoResponse
                /\ pc' = "embed"
    /\ UNCHANGED <<init_pc, service, chatbot_service_instance, vector_store>>

\* get_rag_response called on a constructed service by other code than the
\* HTTP handler (the __main__ block of chatbot_service.py does so)
DirectCall(q) ==
    /\ init_pc = "done"
    /\ chatbot_service_instance = "service"
    /\ pc \in {"idle", "done"}
    /\ caller' = "direct"
    /\ query' = q
    /\ ResetLocals
    /\ response' = NoResponse
    /\ pc' = "embed"
    /\ UNCHANGED <<init_pc, service, chatbot_service_instance, vector_store>>

(* ------------------------- get_rag_response ---------------------------- *)
\* where control goes when get_rag_response ends
AfterCall == IF caller = "http" THEN "handler" ELSE "done"

\* 1. query_embedding = self._embed_query(query); encode may raise, and
\* nothing in get_rag_response catches it
EmbedQuery ==
    /\ pc = "embed"
    /\ stages' = Append(stages, "embed")
    /\ \E ok \in BOOLEAN :
          IF ok
          THEN /\ query_embedding' = embed_query(query)
               /\ pc' = "retrieve"
               /\ UNCHANGED rag_result
          ELSE /\ rag_result' = Raised(EXC_EMBED)
               /\ pc' = AfterCall
               /\ UNCHANGED query_embedding
    /\ UNCHANGED <<init_pc, service, chatbot_service_instance, vector_store,
                   caller, query, context_documents, context_metadatas,
                   context_distances, prompt, final_response, llm_outcome,
                   query_raised, response>>

\* 2. self._retrieve_context(query_embedding, n_results=3)
\* (variant: a query that raised is issued again)
RetrieveContext_retries ==
    /\ pc = "retrieve"
    /\ stages' = Append(stages, "retrieve")
    /\ \E outcome \in QueryOutcomes(vector_store, N_RESULTS) :
          LET r == retrieve_context(outcome)
          IN  /\ query_raised' = outcome.raised
              /\ context_documents' = r.documents
              /\ context_metadatas' = r.metadatas
              /\ context_distances' = r.distances
              /\ pc' = IF outcome.raised THEN "retrieve" ELSE "construct"
    /\ UNCHANGED <<init_pc, service, chatbot_service_instance, vector_store,
                   caller, query, query_embedding, prompt, final_response,
                   llm_outcome, rag_result, response>>
RetrieveContext ==
    /\ pc = "retrieve"
    /\ stages' = Append(stages, "retrieve")
    /\ \E outcome \in QueryOutcomes(vector_store, N_RESULTS) :
          LET r == retrieve_context(outcome)
          IN  /\ query_raised' = outcome.raised
              /\ context_documents' = r.documents
              /\ context_metadatas' = r.metadatas
              /\ context_distances' = r.distances
    /\ pc' = "construct"
    /\ UNCHANGED <<init_pc, service, chatbot_service_instance, vector_store,
                   caller, query, query_embedding, prompt, final_response,
                   llm_outcome, rag_result, response>>

\* 3. prompt = self._construct_prompt(query, context_documents)
ConstructPrompt ==
    /\ pc = "construct"
    /\ stages' = Append(stages, "assemble")
    /\ IF JoinRaises(context_documents)
       THEN /\ rag_result' = Raised(EXC_JOIN)
            /\ pc' = AfterCall
            /\ UNCHANGED prompt
       ELSE /\ prompt' = construct_prompt(query, context_documents)
            /\ pc' = "generate"
            /\ UNCHANGED rag_result
    /\ UNCHANGED <<init_pc, service, chatbot_service_instance, vector_store,
                   caller, query, query_embedding, context_documents,
                   context_metadatas, context_distances, final_response,
                   llm_outcome, query_raised, response>>

\* 4. final_response = self._generate_llm_response(prompt); return it
GenerateLLMResponse ==
    /\ pc = "generate"
    /\ stages' = Append(stages, "generate")
    /\ \E outcome \in LLMOutcomes :
          /\ llm_outcome' = outcome
          /\ final_response' = generate_llm_response(outcome)
          /\ rag_result' = Returned(generate_llm_response(outcome))
    /\ pc' = AfterCall
    /\ UNCHANGED <<init_pc, service, chatbot_service_instance, vector_store,
                   caller, query, query_embedding, context_documents,
                   context_metadatas, context_distances, prompt, query_raised,
                   response>>

(* ------------------- handle_chat_query, after the call ----------------- *)
\* the detail of the 500 answer: fixed, the exception goes to the log only
\* (variant: detail=str(e))
InternalErrorDetail_leaks(exc) == exc
InternalErrorDetail(exc) == DETAIL_500

\* lines 71-72: return ChatResponse(answer=bot_answer)
HandlerReturn ==
    /\ pc = "handler"
    /\ rag_result.kind = "returned"
    /\ response' = ChatResponse(rag_result.value)
    /\ pc' = "done"
    /\ UNCHANGED <<init_pc, service, chatbot_service_instance, vector_store,
                   caller, query, locals, rag_result, stages>>

\* lines 76-79: except Exception: raise HTTPException(500, fixed detail)
HandlerExcept ==
    /\ pc = "handler"
    /\ rag_result.kind = "raised"
    /\ response' = HTTPException(500, InternalErrorDetail(rag_result.exc))
    /\ pc' = "done"
    /\ UNCHANGED <<init_pc, service, chatbot_service_instance, vector_store,
                   caller, query, locals, rag_result, stages>>

Next ==
    \/ LoadEmbeddingModel /\ UNCHANGED <<build_vars, conc_vars, ui_vars>>
    \/ GetCollection /\ UNCHANGED <<build_vars, conc_vars, ui_vars>>
    \/ ConstructLLMClient /\ UNCHANGED <<build_vars, conc_vars, ui_vars>>
    \/ \E q \in Queries : HandleChatQuery(q) /\ UNCHANGED <<build_vars, conc_vars, ui_vars>>
    \/ \E q \in Queries : DirectCall(q) /\ UNCHANGED <<build_vars, conc_vars, ui_vars>>
    \/ EmbedQuery /\ UNCHANGED <<build_vars, conc_vars, ui_vars>>
    \/ RetrieveContext /\ UNCHANGED <<build_vars, conc_vars, ui_vars>>
    \/ ConstructPrompt /\ UNCHANGED <<build_vars, conc_vars, ui_vars>>
    \/ GenerateLLMResponse /\ UNCHANGED <<build_vars, conc_vars, ui_vars>>
    \/ HandlerReturn /\ UNCHANGED <<build_vars, conc_vars, ui_vars>>
    \/ HandlerExcept /\ UNCHANGED <<build_vars, conc_vars, ui_vars>>

Spec == Init /\ [][Next]_vars

(* ====================== properties of the pipeline ===================== *)
AllStages == <<"embed", "retrieve", "assemble", "generate">>

\* every symbol of s is whitespace (so s.strip() is empty)
AllWhitespace(s) == \A i \in 1..Len(s) : s[i] \in Whitespace

\* get_rag_response has ended for the current request
CallEnded == rag_result.kind # "none"

\* _construct_prompt has returned for the current request
PromptBuilt == prompt # <<>>

\* the part of a prompt between PROMPT_HEAD and PROMPT_MID
ContextLen(p, q) == Len(p) - Len(PROMPT_HEAD) - Len(PROMPT_MID) - Len(q) - Len(PROMPT_TAIL)
ContextSection(p, q) ==
    SubSeq(p, Len(PROMPT_HEAD) + 1, Len(PROMPT_HEAD) + ContextLen(p, q))

\* the prompt p is the instruction wrapper around some context and ends
\* with the literal query q
WrapperKept(p, q) ==
    /\ ContextLen(p, q) >= 0
    /\ OccursAt(p, PROMPT_HEAD, 1)
    /\ OccursAt(p, PROMPT_MID \o q \o PROMPT_TAIL,
                Len(PROMPT_HEAD) + ContextLen(p, q) + 1)

\* where document i of docs starts in a text that holds docs in order,
\* two symbols apart, from position first on
RECURSIVE DocStart(_, _, _)
DocStart(docs, i, first) ==
    IF i = 1 THEN first
    ELSE DocStart(docs, i - 1, first) + Len(docs[i - 1]) + 2

\* text holds every document of docs, in the order of docs, with a blank
\* line (two newlines) between neighbours and nothing else
HoldsInOrder(text, docs) ==
    /\ \A i \in 1..Len(docs) : OccursAt(text, docs[i], DocStart(docs, i, 1))
    /\ \A i \in 1..(Len(docs) - 1) :
          OccursAt(text, <<"\n", "\n">>, DocStart(docs, i + 1, 1) - 2)
    /\ Len(docs) >= 1 =>
          Len(text) = DocStart(docs, Len(docs), 1) + Len(docs[Len(docs)]) - 1

(* ---- C1 ---- *)
\* C1 as stated: for every query that is non-empty after trimming,
\* get_rag_response returns a non-empty string and never raises, whatever
\* the embedding call, the index query and the LLM call do.
C1_AlwaysNonEmptyAnswer ==
    (CallEnded /\ ~AllWhitespace(query)) =>
        (rag_result.kind = "returned" /\ rag_result.value # <<>>)

\* C1 amended: for every query that is non-empty after trimming,
\* get_rag_response raises only when the embedding call raises (after the
\* embed stage alone) or when prompt assembly raises on a retrieved document
\* that is not a string; a failed index query or a failed LLM call never
\* makes it raise.  When it returns, all four stages have run and the string
\* is non-empty unless the LLM answered an empty or whitespace-only content.
C1_RaisesOnlyFromEmbedOrAssemble ==
    (CallEnded /\ ~AllWhitespace(query)) =>
        IF rag_result.kind = "raised"
        THEN \/ rag_result.exc = EXC_EMBED /\ stages = <<"embed">>
             \/ /\ rag_result.exc = EXC_JOIN
                /\ stages = <<"embed", "retrieve", "assemble">>
                /\ \E i \in 1..Len(context_documents) :
                      context_documents[i] = NoneDoc
        ELSE /\ stages = AllStages
             /\ \/ rag_result.value # <<>>
                \/ llm_outcome.kind = "ok" /\ AllWhitespace(llm_outcome.content)
             /\ llm_outcome.kind # "ok" => rag_result.value = APOLOGY

\* C1 witness: the index query and the LLM call both fail for a non-empty
\* query and get_rag_response returns the apology
C1_Witness ==
    /\ ~AllWhitespace(query)
    /\ query_raised
    /\ llm_outcome.kind = "transport_error"
    /\ rag_result = Returned(APOLOGY)

(* ---- C2 ---- *)
\* C2: when the LLM call fails in any way (the call raises, the response
\* has no choices, the content is missing), _generate_llm_response returns
\* the apology instead of raising, and POST /chat/ answers 200 with exactly
\* the apology as the answer.
C2_LLMFailureGivesApology ==
    (llm_outcome.kind \in {"transport_error", "no_choices", "none_content"}) =>
        /\ final_response = APOLOGY
        /\ rag_result = Returned(APOLOGY)
        /\ (caller = "http" /\ pc = "done") =>
              /\ response.status = 200
              /\ response.answer = APOLOGY
              /\ ~AllWhitespace(query)

\* C2 witness: a response without content, answered 200 with the apology
C2_Witness ==
    /\ caller = "http"
    /\ llm_outcome.kind = "none_content"
    /\ response.status = 200
    /\ response.answer = APOLOGY

(* ---- C3 ---- *)
\* C3: when the index query fails, _retrieve_context returns empty
\* documents, metadatas and distances, and the pipeline continues: the
\* prompt is assembled with the no-information sentence as its context and
\* the LLM is still invoked.
C3_FailedQueryDegradesToEmptyContext ==
    query_raised =>
        /\ context_documents = <<>>
        /\ context_metadatas = <<>>
        /\ context_distances = <<>>
        /\ pc \in {"construct", "generate", "handler", "done"}
        /\ pc # "construct" =>
              /\ WrapperKept(prompt, query)
              /\ ContextSection(prompt, query) = NO_CONTEXT
        /\ pc \in {"handler", "done"} =>
              /\ stages = AllStages
              /\ llm_outcome.kind # "none"
              /\ rag_result.kind = "returned"

\* C3 witness: the query of a non-empty index raised and the LLM answered
C3_Witness ==
    /\ query_raised
    /\ vector_store # <<>>
    /\ llm_outcome.kind = "ok"
    /\ pc = "done"

(* ---- C4 ---- *)
\* C4 as stated: get_rag_response itself rejects a query that is empty
\* after trimming with an input-validation error before any pipeline stage
\* runs (and rejects for no other reason).
C4_ServiceRejectsBlankQuery ==
    (caller \in {"http", "direct"} /\ AllWhitespace(query)) =>
        /\ stages = <<>>
        /\ CallEnded => rag_result.kind = "raised"

\* C4 amended: get_rag_response validates nothing: called with a query that
\* is empty after trimming it starts with the embed stage as for any other
\* query, and returns the LLM stage's string after all four stages unless
\* the embedding call or prompt assembly raises.  The rejection of such a
\* query is made by its HTTP caller handle_chat_query, which never calls
\* get_rag_response for it.
C4_ValidationIsInTheHandlerOnly ==
    /\ (caller = "http" /\ AllWhitespace(query)) =>
          (stages = <<>> /\ ~CallEnded /\ pc = "done")
    /\ (caller = "direct" /\ pc # "embed") =>
          (stages # <<>> /\ stages[1] = "embed")
    /\ (caller = "direct" /\ CallEnded) =>
          \/ rag_result.kind = "returned" /\ stages = AllStages
          \/ rag_result.exc \in {EXC_EMBED, EXC_JOIN}

\* C4 witness: a direct call with a whitespace-only query ran the four
\* stages and returned
C4_Witness ==
    /\ caller = "direct"
    /\ query = <<" ">>
    /\ stages = AllStages
    /\ rag_result.kind = "returned"

(* ---- C5 ---- *)
\* C5: with the service initialized, POST /chat/ with an empty or
\* whitespace-only query answers 400 and no pipeline stage (embedding,
\* index query, prompt assembly, LLM call) runs for that request.
C5_BlankQueryAnswers400 ==
    (caller = "http" /\ chatbot_service_instance = "service"
        /\ AllWhitespace(query)) =>
        /\ pc = "done"
        /\ response = [status |-> 400, answer |-> <<>>, detail |-> DETAIL_400]
        /\ stages = <<>>
        /\ query_embedding = <<>>
        /\ ~query_raised
        /\ prompt = <<>>
        /\ llm_outcome.kind = "none"
        /\ ~CallEnded

\* C5 witness: a query of two spaces answered 400 by an initialized service
C5_Witness ==
    /\ caller = "http"
    /\ chatbot_service_instance = "service"
    /\ query = <<" ", " ">>
    /\ response.status = 400

(* ---- C6 ---- *)
\* C6: if any initialization step of ChatbotService fails, no service object
\* exists for the rest of the process lifetime, and every later POST /chat/
\* answers 503 without running any pipeline stage, for every query
\* including empty ones.
C6_FailedInitMeans503Forever ==
    [][ /\ (init_pc # "done" /\ init_pc' = "done") =>
              (chatbot_service_instance' = "service"
                  <=> (embedding_model' /\ collection' = COLLECTION_NAME
                          /\ llm_client'))
        /\ (init_pc' = "done" /\ ~(embedding_model' /\ llm_client'
                                    /\ collection' = COLLECTION_NAME)) =>
              /\ chatbot_service_instance' = "None"
              /\ stages' = <<>>
              /\ ~(rag_result'.kind # "none")
              /\ pc' \in {"idle", "done"}
              /\ pc' = "done" =>
                    /\ caller' = "http"
                    /\ response'.status = 503
                    /\ response'.detail = DETAIL_503
        /\ chatbot_service_instance = "None" =>
              /\ chatbot_service_instance' = "None"
              /\ UNCHANGED <<init_pc, service>>
      ]_vars

\* C6 witness: the collection could not be opened and a later POST /chat/
\* with an empty query was answered 503
C6_Witness ==
    /\ chatbot_service_instance = "None"
    /\ ~llm_client
    /\ caller = "http"
    /\ query = <<>>
    /\ response.status = 503
    /\ stages = <<>>

(* ---- C7 ---- *)
\* C7: when the retrieved document list is empty, the prompt built by
\* _construct_prompt has the no-information sentence as its whole context
\* (no document text), inside the same instruction wrapper and with the
\* literal user query, as in the non-empty case.
C7_EmptyContextUsesFallbackSentence ==
    PromptBuilt =>
        /\ WrapperKept(prompt, query)
        /\ context_documents = <<>> =>
              /\ ContextSection(prompt, query) = NO_CONTEXT
              /\ Contains(prompt, NO_CONTEXT)

\* C7 witness: the query of an empty index answered no document and the
\* prompt was built
C7_Witness ==
    /\ PromptBuilt
    /\ vector_store = <<>>
    /\ ~query_raised
    /\ context_documents = <<>>
    /\ query = <<"q", " ">>

(* ---- C8 ---- *)
\* the retrieved documents are all texts (no None among them)
AllTexts(docs) == \A i \in 1..Len(docs) : docs[i] # NoneDoc

\* C8 as stated: for every non-empty list of document texts, the prompt
\* contains every document, in the order of the list, separated by blank
\* lines, and does not contain the no-information sentence.
C8_DocsInOrderAndNoFallbackSentence ==
    (PromptBuilt /\ context_documents # <<>> /\ AllTexts(context_documents)) =>
        /\ HoldsInOrder(ContextSection(prompt, query), context_documents)
        /\ ~Contains(prompt, NO_CONTEXT)

\* C8 amended: for every non-empty list of document texts, the context
\* section of the prompt is exactly the documents in the order of the list
\* with a blank line between neighbours; the no-information sentence is not
\* inserted, so the prompt contains it only if one of the documents does.
C8_DocsInOrderFallbackNotInserted ==
    (PromptBuilt /\ context_documents # <<>> /\ AllTexts(context_documents)) =>
        /\ WrapperKept(prompt, query)
        /\ HoldsInOrder(ContextSection(prompt, query), context_documents)
        /\ Contains(prompt, NO_CONTEXT) =>
              \E i \in 1..Len(context_documents) :
                  Contains(context_documents[i], NO_CONTEXT)

\* C8 witness: three distinct documents retrieved, the nearest one being
\* the last record of the collection, and the prompt built
C8_Witness ==
    /\ PromptBuilt
    /\ Len(context_documents) = N_RESULTS
    /\ context_documents[1] = <<"d3">>
    /\ context_documents[2] = <<"d0">>
    /\ ~Contains(prompt, NO_CONTEXT)

(* ---- C9 ---- *)
\* every retrieved candidate is as far from the query as the index reports
AllFar == \A i \in 1..Len(context_distances) : context_distances[i] = MaxDistance

\* C9 as stated: for a query unrelated to every record of a non-empty index
\* (all candidates have low relevance), the assembled prompt contains the
\* no-information sentence and the orchestrator still returns a non-empty
\* answer string.
C9_UnrelatedQueryGetsFallbackSentence ==
    (vector_store # <<>> /\ ~query_raised /\ AllFar /\ PromptBuilt) =>
        /\ Contains(prompt, NO_CONTEXT)
        /\ CallEnded => (rag_result.kind = "returned" /\ rag_result.value # <<>>)

\* C9 amended: for a query unrelated to every record of a non-empty index,
\* an index query that succeeds still answers the min(3, size) nearest
\* records whatever their distances, and no relevance filter is applied:
\* the context of the prompt is those documents, and the no-information
\* sentence appears only if one of them contains it.  The orchestrator then
\* returns a string, non-empty unless the LLM answered an empty or
\* whitespace-only content.
C9_UnrelatedQueryKeepsRetrievedDocs ==
    (vector_store # <<>> /\ ~query_raised /\ AllFar /\ PromptBuilt) =>
        /\ Len(context_documents) = Min(N_RESULTS, Len(vector_store))
        /\ Len(context_distances) = Len(context_documents)
        /\ \A i \in 1..Len(context_documents) :
              Contains(ContextSection(prompt, query), context_documents[i])
        /\ ContextSection(prompt, query) = NO_CONTEXT =>
              \E i \in 1..Len(context_documents) :
                  context_documents[i] = NO_CONTEXT
        /\ CallEnded =>
              /\ rag_result.kind = "returned"
              /\ \/ rag_result.value # <<>>
                 \/ AllWhitespace(llm_outcome.content)

\* C9 witness: four records, the three retrieved ones all far, no fallback
\* sentence in the prompt, an answer returned
C9_Witness ==
    /\ Len(vector_store) = 4
    /\ ~query_raised
    /\ AllFar
    /\ Len(context_documents) = N_RESULTS
    /\ ~Contains(prompt, NO_CONTEXT)
    /\ rag_result.kind = "returned"
    /\ rag_result.value = <<"x">>

(* ---- C10 ---- *)
\* C10: a failure inside the pipeline that no fail-soft stage absorbs (an
\* exception of the embedding call or of prompt assembly) makes POST /chat/
\* answer 500 with the fixed generic detail; the response never carries the
\* exception text; 200, 400, 500 and 503 are the only outcomes.
C10_UnabsorbedFailureAnswers500 ==
    (caller = "http" /\ pc = "done") =>
        /\ response.status \in {200, 400, 500, 503}
        /\ rag_result.kind = "raised" <=> response.status = 500
        /\ rag_result.kind = "returned" <=> response.status = 200
        /\ response.status = 500 =>
              /\ response.detail = DETAIL_500
              /\ response.answer = <<>>
              /\ rag_result.exc \in {EXC_EMBED, EXC_JOIN}
        /\ response.detail \notin {EXC_EMBED, EXC_JOIN}
        /\ response.detail # rag_result.exc \/ rag_result.exc = ""

\* C10 witness: the embedding call raised and the handler answered 500
C10_Witness ==
    /\ caller = "http"
    /\ rag_result = Raised(EXC_EMBED)
    /\ response.status = 500
    /\ response.detail = DETAIL_500

(* ---- C11 ---- *)
\* s is an initial part of t
IsPrefix(s, t) == Len(s) <= Len(t) /\ SubSeq(t, 1, Len(s)) = s

\* C11 as stated: every request that passes input validation runs embed,
\* retrieve (k=3), assemble, generate in that order, each exactly once, and
\* runs all of them before returning, whatever stage fails.
C11_AllStagesAlwaysRun ==
    /\ IsPrefix(stages, AllStages)
    /\ (caller = "http" /\ pc = "done" /\ ~AllWhitespace(query)
            /\ chatbot_service_instance = "service") =>
          stages = AllStages

\* C11 amended: every request that passes input validation runs the stages
\* in the order embed, retrieve (k=3), assemble, generate, each at most once
\* and with no retry.  A failed index query or a failed LLM call is never
\* issued again and never stops the later stages: all four stages run.  An
\* exception of the embedding call ends the pipeline after embed, and one of
\* prompt assembly ends it after assemble: the later stages do not run.
C11_StagesInOrderUntilOneRaises ==
    /\ IsPrefix(stages, AllStages)
    /\ Len(context_documents) <= N_RESULTS
    /\ (caller = "http" /\ stages # <<>>) =>
          (~AllWhitespace(query) /\ chatbot_service_instance = "service")
    /\ (caller = "http" /\ pc = "done" /\ ~AllWhitespace(query)
            /\ chatbot_service_instance = "service") =>
          /\ response.status = 200 <=> stages = AllStages
          /\ response.status = 500 <=>
                \/ stages = <<"embed">> /\ rag_result.exc = EXC_EMBED
                \/ /\ stages = <<"embed", "retrieve", "assemble">>
                   /\ rag_result.exc = EXC_JOIN
          /\ response.status \in {200, 500}
          /\ (query_raised \/ llm_outcome.kind \notin {"none", "ok"}) =>
                stages = AllStages

\* C11 witness: the index query and the LLM call both failed, each stage
\* ran once and the request was answered
C11_Witness ==
    /\ caller = "http"
    /\ pc = "done"
    /\ query_raised
    /\ llm_outcome.kind = "no_choices"
    /\ stages = AllStages
    /\ response.status = 200

(* ============ the offline build: scripts/build_knowledge_base.py ======= *)
\* most FAQ records a faqs.json holds
MaxFaqs == 2

Faq(i, q, a) == [id |-> i, question |-> q, answer |-> a]

\* the FAQ records a faqs.json is made of
FaqPool == {Faq(1, "q1", "a1"), Faq(2, "q2", "a2")}

\* load_faqs: the lists store_in_chromadb is reached with (the __main__
\* block stops on an empty list)
FaqLists == UNION {[1..n -> FaqPool] : n \in 1..MaxFaqs}

\* preprocess_faqs
preprocess_documents(faqs) ==
    [i \in 1..Len(faqs) |->
        <<"Question: ", faqs[i].question, " Answer: ", faqs[i].answer>>]
preprocess_metadatas(faqs) ==
    [i \in 1..Len(faqs) |->
        [original_question |-> faqs[i].question,
         original_answer |-> faqs[i].answer,
         faq_id |-> faqs[i].id]]

\* generate_embeddings: model.encode(documents), the model of _embed_query
generate_embeddings(documents) ==
    [i \in 1..Len(documents) |-> embed_query(documents[i])]

\* doc_ids = [f"doc_{i}" for i in range(len(documents))]; i stands for doc_i
doc_ids(documents) == [i \in 1..Len(documents) |-> i - 1]

\* the records collection.add is given
AddedRecords(documents, embeddings, metadatas) ==
    { [id |-> doc_ids(documents)[i], document |-> documents[i],
       embedding |-> embeddings[i], metadata |-> metadatas[i]] :
         i \in 1..Len(documents) }

IdsOf(records) == {r.id : r \in records}

\* collection.add on a collection that already holds some of the ids: the
\* records whose id is new are stored, the records already there stay
AddIgnoringExisting(old, new) ==
    old \cup {r \in new : r.id \notin IdsOf(old)}

\* the except branch of store_in_chromadb: return False
BuildReturnsFalse ==
    /\ b_result' = "False"
    /\ b_pc' = "returned"

\* __main__, lines 169-177: the FAQs are loaded, preprocessed and embedded,
\* and store_in_chromadb is called
BuildStart(faqs) ==
    /\ b_pc \in {"idle", "returned"}
    /\ b_documents' = preprocess_documents(faqs)
    /\ b_embeddings' = generate_embeddings(preprocess_documents(faqs))
    /\ b_metadatas' = preprocess_metadatas(faqs)
    /\ b_delete_failed' = FALSE
    /\ b_result' = "none"
    /\ b_pc' = "client"
    /\ UNCHANGED kb

\* lines 118-122: makedirs, PersistentClient(path)
BuildOpenClient ==
    /\ b_pc = "client"
    /\ \E ok \in BOOLEAN :
          IF ok THEN b_pc' = "delete" /\ UNCHANGED b_result
          ELSE BuildReturnsFalse
    /\ UNCHANGED <<kb, b_documents, b_embeddings, b_metadatas, b_delete_failed>>

\* lines 131-135: delete_collection inside its own try; whatever it raises
\* (no such collection, or any other error) is passed over
BuildDeleteCollection ==
    /\ b_pc = "delete"
    /\ IF ~kb.exists
       THEN UNCHANGED <<kb, b_delete_failed>>
       ELSE \E ok \in BOOLEAN :
               IF ok
               THEN kb' = NoCollection /\ UNCHANGED b_delete_failed
               ELSE b_delete_failed' = TRUE /\ UNCHANGED kb
    /\ b_pc' = "create"
    /\ UNCHANGED <<b_documents, b_embeddings, b_metadatas, b_result>>

\* lines 137-141: get_or_create_collection
BuildGetOrCreate ==
    /\ b_pc = "create"
    /\ \E ok \in BOOLEAN :
          IF ok
          THEN /\ kb' = IF kb.exists THEN kb
                        ELSE [exists |-> TRUE, records |-> {}]
               /\ b_pc' = "add"
               /\ UNCHANGED b_result
          ELSE BuildReturnsFalse /\ UNCHANGED kb
    /\ UNCHANGED <<b_documents, b_embeddings, b_metadatas, b_delete_failed>>

\* lines 145-161: doc_ids, collection.add, collection.count, return True.
\* add raises or stores; given ids the collection already holds it raises
\* or leaves those records as they are, by the version of the library
BuildAdd ==
    /\ b_pc = "add"
    /\ LET new == AddedRecords(b_documents, b_embeddings, b_metadatas)
       IN  \E outcome \in {"stored", "raised"} :
             IF outcome = "raised"
             THEN BuildReturnsFalse /\ UNCHANGED kb
             ELSE /\ kb' = [exists |-> TRUE,
                            records |-> AddIgnoringExisting(kb.records, new)]
                  /\ \E count_ok \in BOOLEAN :
                        IF count_ok
                        THEN b_result' = "True" /\ b_pc' = "returned"
                        ELSE BuildReturnsFalse
    /\ UNCHANGED <<b_documents, b_embeddings, b_metadatas, b_delete_failed>>

InitBuild ==
    /\ Init
    /\ vector_store = <<>>

NextBuild ==
    \/ \E faqs \in FaqLists : BuildStart(faqs) /\ UNCHANGED <<serve_vars, conc_vars, ui_vars>>
    \/ BuildOpenClient /\ UNCHANGED <<serve_vars, conc_vars, ui_vars>>
    \/ BuildDeleteCollection /\ UNCHANGED <<serve_vars, conc_vars, ui_vars>>
    \/ BuildGetOrCreate /\ UNCHANGED <<serve_vars, conc_vars, ui_vars>>
    \/ BuildAdd /\ UNCHANGED <<serve_vars, conc_vars, ui_vars>>

SpecBuild == InitBuild /\ [][NextBuild]_vars

(* ---- C12 ---- *)
\* C12: after store_in_chromadb returns True, the collection holds exactly
\* the documents of the current run, one record per input document under
\* the pairwise distinct ids doc_0..doc_(n-1) with its own embedding and
\* metadata, and no record of an earlier build survives, also when the
\* attempt to delete the previous collection failed.
C12_CollectionIsExactlyThisRun ==
    (b_pc = "returned" /\ b_result = "True") =>
        /\ kb.exists
        /\ Cardinality(kb.records) = Len(b_documents)
        /\ IdsOf(kb.records) = 0..(Len(b_documents) - 1)
        /\ \A r \in kb.records :
              /\ r.document = b_documents[r.id + 1]
              /\ r.embedding = b_embeddings[r.id + 1]
              /\ r.metadata = b_metadatas[r.id + 1]

\* what holds of store_in_chromadb: the same, whenever the previous
\* collection was absent or was deleted
C12_HoldsWhenDeleteWorked ==
    (b_pc = "returned" /\ b_result = "True" /\ ~b_delete_failed) =>
        /\ kb.exists
        /\ kb.records = AddedRecords(b_documents, b_embeddings, b_metadatas)
        /\ Cardinality(kb.records) = Len(b_documents)

(* ================== requests in flight at the same time ================ *)
\* the queries, index answers and LLM answers the requests draw from
ConcQueries == {<<" ">>, <<"q">>, <<"q", "q">>}
ConcStores == {c \in StoredCollections : Len(c) <= 2}
ConcQueryOutcomes(coll) ==
    {o \in QueryOutcomes(coll, N_RESULTS) :
        \A i \in 1..Len(o.results.distances) : o.results.distances[i] = 0}
ConcLLMOutcomes ==
    {[kind |-> "transport_error", content |-> <<>>],
     [kind |-> "ok", content |-> <<"x">>],
     [kind |-> "ok", content |-> <<" ", "x">>]}

\* query_embedding, context_documents, prompt and final_response are local
\* variables of get_rag_response: each call has its own
\* (variant: they are kept on self, one set for all calls)
frame_on_self(r) == 1
frame(r) == r

\* the import of app.main is over and the service was constructed
InitConc ==
    /\ init_pc = "done"
    /\ embedding_model = TRUE
    /\ collection = COLLECTION_NAME
    /\ llm_client = TRUE
    /\ chatbot_service_instance = "service"
    /\ vector_store \in ConcStores
    /\ pc = "idle"
    /\ caller = "none"
    /\ query = <<>>
    /\ FreshLocals
    /\ rag_result = NoResult
    /\ response = NoResponse
    /\ stages = <<>>
    /\ BuildIdle
    /\ ConcIdle
    /\ UIIdle

\* handle_chat_query, lines 58-70, for request r
ConcReceive(r, q) ==
    /\ c_pc[r] = "idle"
    /\ c_query' = [c_query EXCEPT ![r] = q]
    /\ LET code == EntryCheck(chatbot_service_instance, q)
       IN  IF code # 0
           THEN /\ c_response' = [c_response EXCEPT
                                    ![r] = HTTPException(code, EntryDetail(code))]
                /\ c_pc' = [c_pc EXCEPT ![r] = "done"]
                /\ UNCHANGED c_frames
           ELSE /\ c_frames' = [c_frames EXCEPT ![frame(r)] = NoFrame]
                /\ c_pc' = [c_pc EXCEPT ![r] = "embed"]
                /\ UNCHANGED c_response
    /\ UNCHANGED c_seen

\* the exception of get_rag_response reaches the handler: lines 76-79
ConcAnswers500(r, exc) ==
    /\ c_response' = [c_response EXCEPT
                        ![r] = HTTPException(500, InternalErrorDetail(exc))]
    /\ c_pc' = [c_pc EXCEPT ![r] = "done"]

\* get_rag_response step 1 for request r
ConcEmbed(r) ==
    /\ c_pc[r] = "embed"
    /\ \E ok \in BOOLEAN :
          IF ok
          THEN /\ c_frames' = [c_frames EXCEPT ![frame(r)].query_embedding =
                                  embed_query(c_query[r])]
               /\ c_pc' = [c_pc EXCEPT ![r] = "retrieve"]
               /\ UNCHANGED <<c_seen, c_response>>
          ELSE /\ c_seen' = [c_seen EXCEPT ![r].embed_ok = FALSE]
               /\ ConcAnswers500(r, EXC_EMBED)
               /\ UNCHANGED c_frames
    /\ UNCHANGED c_query

\* step 2 for request r
ConcRetrieve(r) ==
    /\ c_pc[r] = "retrieve"
    /\ \E outcome \in ConcQueryOutcomes(vector_store) :
          /\ c_seen' = [c_seen EXCEPT ![r].query_outcome = outcome]
          /\ c_frames' = [c_frames EXCEPT ![frame(r)].context_documents =
                             retrieve_context(outcome).documents]
    /\ c_pc' = [c_pc EXCEPT ![r] = "construct"]
    /\ UNCHANGED <<c_query, c_response>>

\* step 3 for request r
ConcConstruct(r) ==
    /\ c_pc[r] = "construct"
    /\ LET docs == c_frames[frame(r)].context_documents
       IN  IF JoinRaises(docs)
           THEN /\ ConcAnswers500(r, EXC_JOIN)
                /\ UNCHANGED c_frames
           ELSE /\ c_frames' = [c_frames EXCEPT ![frame(r)].prompt =
                                   construct_prompt(c_query[r], docs)]
                /\ c_pc' = [c_pc EXCEPT ![r] = "generate"]
                /\ UNCHANGED c_response
    /\ UNCHANGED <<c_query, c_seen>>

\* step 4 for request r, the return and lines 71-72 of the handler
ConcGenerate(r) ==
    /\ c_pc[r] = "generate"
    /\ \E outcome \in ConcLLMOutcomes :
          /\ c_seen' = [c_seen EXCEPT
                           ![r].llm_outcome = outcome,
                           ![r].prompt = c_frames[frame(r)].prompt]
          /\ c_frames' = [c_frames EXCEPT ![frame(r)].final_response =
                             generate_llm_response(outcome)]
          /\ c_response' = [c_response EXCEPT
                               ![r] = ChatResponse(generate_llm_response(outcome))]
    /\ c_pc' = [c_pc EXCEPT ![r] = "done"]
    /\ UNCHANGED c_query

NextConc ==
    \/ \E r \in Requests, q \in ConcQueries :
          ConcReceive(r, q) /\ UNCHANGED <<serve_vars, build_vars, ui_vars>>
    \/ \E r \in Requests :
          ConcEmbed(r) /\ UNCHANGED <<serve_vars, build_vars, ui_vars>>
    \/ \E r \in Requests :
          ConcRetrieve(r) /\ UNCHANGED <<serve_vars, build_vars, ui_vars>>
    \/ \E r \in Requests :
          ConcConstruct(r) /\ UNCHANGED <<serve_vars, build_vars, ui_vars>>
    \/ \E r \in Requests :
          ConcGenerate(r) /\ UNCHANGED <<serve_vars, build_vars, ui_vars>>

SpecConc == InitConc /\ [][NextConc]_vars

(* ---- C13 ---- *)
\* the documents the index answered to request r's own query
OwnDocuments(r) ==
    IF c_seen[r].query_outcome.raised THEN <<>>
    ELSE c_seen[r].query_outcome.results.documents

\* the response a request gets when it is processed with no other request
\* in flight, from its query and what its own external calls did
SoloResponse(q, seen) ==
    LET docs == IF seen.query_outcome.raised THEN <<>>
                ELSE seen.query_outcome.results.documents
    IN  IF AllWhitespace(q) THEN HTTPException(400, DETAIL_400)
        ELSE IF ~seen.embed_ok THEN HTTPException(500, DETAIL_500)
        ELSE IF \E i \in 1..Len(docs) : docs[i] = NoneDoc
             THEN HTTPException(500, DETAIL_500)
        ELSE IF seen.llm_outcome.kind = "ok"
             THEN ChatResponse(Strip(seen.llm_outcome.content))
        ELSE ChatResponse(APOLOGY)

Isolated ==
    \A r \in Requests :
        /\ c_seen[r].llm_outcome.kind # "none" =>
              /\ WrapperKept(c_seen[r].prompt, c_query[r])
              /\ IF OwnDocuments(r) = <<>>
                 THEN ContextSection(c_seen[r].prompt, c_query[r]) = NO_CONTEXT
                 ELSE HoldsInOrder(ContextSection(c_seen[r].prompt, c_query[r]),
                                   OwnDocuments(r))
        /\ c_pc[r] = "done" => c_response[r] = SoloResponse(c_query[r], c_seen[r])

\* C13: under any interleaving of concurrently processed requests, no
\* request writes the process-wide state (embedding model, collection handle
\* and index contents, LLM client), the prompt of each request is built only
\* from its own query and its own retrieved documents, and each answer is
\* the one the request gets when it runs alone.
C13_RequestsAreIsolated ==
    [][ /\ UNCHANGED <<service, chatbot_service_instance, vector_store>>
        /\ Isolated' ]_vars

\* C13 witness: two requests with different queries and different retrieved
\* documents were in the pipeline together and both were answered 200
C13_Witness ==
    /\ c_pc[1] = "done" /\ c_pc[2] = "done"
    /\ c_query[1] # c_query[2]
    /\ OwnDocuments(1) # OwnDocuments(2)
    /\ OwnDocuments(1) # <<>>
    /\ c_seen[1].prompt # c_seen[2].prompt
    /\ c_response[1].status = 200 /\ c_response[2].status = 200
    /\ c_frames[1].prompt # <<>> /\ c_frames[2].prompt # <<>>

(* ============================ the chat UI =============================== *)
MaxSubmissions == 3

\* what st.chat_input returns to a script run: "" stands for None, the run
\* was not started by a submission
UIInputs == {"", "q1", "q2"}

DEFAULT_ANSWER == "Sorry, I couldn't get a proper answer."
ERR_CONNECT == "Error connecting to the chatbot API: "
ERR_UNEXPECTED == "An unexpected error occurred: "

\* what requests.post, raise_for_status and response.json can do
PostOutcomes ==
    {[kind |-> "connection_error", answer |-> ""],
     [kind |-> "http_error", answer |-> ""],
     [kind |-> "invalid_json", answer |-> ""],
     [kind |-> "not_an_object", answer |-> ""],
     [kind |-> "no_answer_key", answer |-> ""],
     [kind |-> "ok", answer |-> "a1"],
     [kind |-> "ok", answer |-> "a2"]}

Message(role, content) == [role |-> role, content |-> content]

\* lines 42-66: the content of the assistant message the run appends
assistant_content(outcome) ==
    CASE outcome.kind = "ok" -> outcome.answer
      [] outcome.kind = "no_answer_key" -> DEFAULT_ANSWER
      [] outcome.kind \in {"connection_error", "http_error", "invalid_json"}
            -> ERR_CONNECT
      [] OTHER -> ERR_UNEXPECTED

\* a browser session opens: st.session_state has no "messages" yet
InitUI ==
    /\ init_pc = "load_embedding_model"
    /\ embedding_model = FALSE
    /\ collection = NoCollection
    /\ llm_client = FALSE
    /\ chatbot_service_instance = "unset"
    /\ vector_store = <<>>
    /\ pc = "idle"
    /\ caller = "none"
    /\ query = <<>>
    /\ FreshLocals
    /\ rag_result = NoResult
    /\ response = NoResponse
    /\ stages = <<>>
    /\ BuildIdle
    /\ ConcIdle
    /\ ui_messages = <<>>
    /\ ui_pc = "new"
    /\ ui_query = ""
    /\ ui_submitted = 0

\* lines 18-35 of a script run
RunToPost(input) ==
    IF input # ""
    THEN /\ ui_submitted < MaxSubmissions
         /\ ui_messages' = Append(ui_messages, Message("user", input))
         /\ ui_query' = input
         /\ ui_submitted' = ui_submitted + 1
         /\ ui_pc' = "post"
    ELSE /\ ui_pc' = "idle"
         /\ UNCHANGED <<ui_messages, ui_query, ui_submitted>>

\* a script run starts while no other run of the session is going on; the
\* first run of a session is not started by a submission
UIScriptRun(input) ==
    /\ ui_pc \in {"new", "idle"}
    /\ ui_pc = "new" => input = ""
    /\ RunToPost(input)

\* lines 38-66: the request, and the assistant message of the try or of
\* one of the two except clauses
UIPost ==
    /\ ui_pc = "post"
    /\ \E outcome \in PostOutcomes :
          ui_messages' = Append(ui_messages,
                                Message("assistant", assistant_content(outcome)))
    /\ ui_pc' = "idle"
    /\ UNCHANGED <<ui_query, ui_submitted>>

\* the user submits again while the run is waiting in requests.post:
\* Streamlit stops the running script at its next st call (the exit of
\* st.spinner, before line 49) and runs the script again from the top
UIRerunDuringPost(input) ==
    /\ ui_pc = "post"
    /\ input # ""
    /\ RunToPost(input)

NextUI ==
    \/ \E input \in UIInputs :
          UIScriptRun(input) /\ UNCHANGED <<serve_vars, build_vars, conc_vars>>
    \/ UIPost /\ UNCHANGED <<serve_vars, build_vars, conc_vars>>
    \/ \E input \in UIInputs :
          UIRerunDuringPost(input) /\ UNCHANGED <<serve_vars, build_vars, conc_vars>>

SpecUI == InitUI /\ [][NextUI]_vars

(* ---- C14 ---- *)
RoleAt(i) == IF i % 2 = 1 THEN "user" ELSE "assistant"

PairsOfUserAndAssistant ==
    /\ Len(ui_messages) = 2 * ui_submitted
    /\ \A i \in 1..Len(ui_messages) : ui_messages[i].role = RoleAt(i)

\* C14: every submitted non-empty input appends exactly one user message
\* followed by exactly one assistant message, so whenever no run is going on
\* the history after n submissions has 2n entries alternating user,
\* assistant, and no step changes or removes an earlier entry.
C14_HistoryIsPairs ==
    [][ /\ IsPrefix(ui_messages, ui_messages')
        /\ ui_pc' = "idle" => PairsOfUserAndAssistant' ]_vars

\* no step changes or removes an entry of the history
C14_HistoryOnlyGrows == [][IsPrefix(ui_messages, ui_messages')]_vars

\* a run that is not stopped appends its pair: when the history was pairs
\* at the submission it is pairs again after lines 38-66
C14_UnstoppedRunAppendsItsPair ==
    [][ (/\ ui_pc = "post" /\ ui_pc' = "idle"
         /\ Len(ui_messages) = 2 * ui_submitted - 1
         /\ \A i \in 1..Len(ui_messages) : ui_messages[i].role = RoleAt(i))
        => PairsOfUserAndAssistant' ]_vars

====
